---- MODULE Spec2Model ----
(***************************************************************************)
(* Model of the log-structured key-value store of src/src/lib.rs.          *)
(* The data file is a sequence of bytes (ASCII codes); a Command is        *)
(* serialised to the JSON text serde_json writes and read back by a        *)
(* decoder that works on the bytes at an offset, so that offsets, record   *)
(* boundaries and the key stored in a record are all things a check can    *)
(* get wrong.  I/O failures of the operating system are not modelled.      *)
(***************************************************************************)
EXTENDS Integers, Sequences, FiniteSets, TLC

VARIABLES file, writer, index, num_dead_keys, alive, last

vars == <<file, writer, index, num_dead_keys, alive, last>>

\* Cap on the dead-key counter: the code never lowers it during a session.
MaxDead == 3

\* The keys the operations are called with, as byte strings: "a", "ab", "b"
\* and "c" (one key is a prefix of another).  Four keys are the fewest with
\* which a remove can leave the ratio at or below 0.4, so that a Remove
\* record stays in the log.
Keys == {<<97>>, <<97, 98>>, <<98>>, <<99>>}

\* The (key, value) pairs set is called with: "a" with "1" and with "22",
\* "ab" with "1", "b" with "22", "c" with "1".
Inputs ==
    {<< <<97>>, <<49>> >>, << <<97>>, <<50, 50>> >>, << <<97, 98>>, <<49>> >>,
     << <<98>>, <<50, 50>> >>, << <<99>>, <<49>> >>}

\* COMPACTION_DEAD_KEYS_RATIO = 0.4, as the fraction RatioNum / RatioDen.
RatioNum == 4
RatioDen == 10

(***************************************************************************)
(* Serialisation: #[derive(Serialize)] enum Command through serde_json.    *)
(***************************************************************************)
\* {"Set":{"key":"
SetPrefix == <<123, 34, 83, 101, 116, 34, 58, 123, 34, 107, 101, 121, 34, 58, 34>>
\* ","value":"
ValueSep == <<34, 44, 34, 118, 97, 108, 117, 101, 34, 58, 34>>
\* {"Remove":{"key":"
RemovePrefix == <<123, 34, 82, 101, 109, 111, 118, 101, 34, 58, 123, 34, 107, 101, 121, 34, 58, 34>>
\* "}}
Suffix == <<34, 125, 125>>

SetCommand(key, value) == [kind |-> "Set", key |-> key, value |-> value]
RemoveCommand(key) == [kind |-> "Remove", key |-> key, value |-> <<>>]

\* serde_json::to_writer(&mut w, &command): the bytes written.
to_writer(command) ==
    IF command.kind = "Set"
    THEN SetPrefix \o command.key \o ValueSep \o command.value \o Suffix
    ELSE RemovePrefix \o command.key \o Suffix

\* Does the byte string pat occur in data at byte offset p ?
HasAt(data, p, pat) ==
    /\ p + Len(pat) <= Len(data)
    /\ SubSeq(data, p + 1, p + Len(pat)) = pat

\* Offset of the first double quote at or after offset p, -1 when there is none.
RECURSIVE StrEnd(_, _)
StrEnd(data, p) ==
    IF p >= Len(data) THEN -1
    ELSE IF data[p + 1] = 34 THEN p
    ELSE StrEnd(data, p + 1)

NoCommand(kind, p) == [kind |-> kind, key |-> <<>>, value |-> <<>>, end |-> p]

\* The tail of a Set record, from the first byte of its key at offset ks.
ReadSet(data, ks) ==
    LET ke == StrEnd(data, ks) IN
    IF ke = -1 \/ ~HasAt(data, ke, ValueSep) THEN NoCommand("SerdeError", ks)
    ELSE LET vs == ke + Len(ValueSep)
             ve == StrEnd(data, vs) IN
         IF ve = -1 \/ ~HasAt(data, ve, Suffix) THEN NoCommand("SerdeError", vs)
         ELSE [kind |-> "Set", key |-> SubSeq(data, ks + 1, ke),
               value |-> SubSeq(data, vs + 1, ve), end |-> ve + Len(Suffix)]

\* The tail of a Remove record, from the first byte of its key at offset ks.
ReadRemove(data, ks) ==
    LET ke == StrEnd(data, ks) IN
    IF ke = -1 \/ ~HasAt(data, ke, Suffix) THEN NoCommand("SerdeError", ks)
    ELSE [kind |-> "Remove", key |-> SubSeq(data, ks + 1, ke),
          value |-> <<>>, end |-> ke + Len(Suffix)]

\* One stream.next() of serde_json's StreamDeserializer<Command> positioned
\* at byte offset p: end of stream, a decoding error, or the command read
\* together with byte_offset() after it.
StreamNext(data, p) ==
    IF p >= Len(data) THEN NoCommand("Eof", p)
    ELSE IF HasAt(data, p, SetPrefix) THEN ReadSet(data, p + Len(SetPrefix))
    ELSE IF HasAt(data, p, RemovePrefix) THEN ReadRemove(data, p + Len(RemovePrefix))
    ELSE NoCommand("SerdeError", p)

(***************************************************************************)
(* Results.                                                                *)
(***************************************************************************)
Ok == [kind |-> "Ok", v |-> <<>>]
OkNone == [kind |-> "None", v |-> <<>>]
OkSome(v) == [kind |-> "Some", v |-> v]
Err(e) == [kind |-> e, v |-> <<>>]
IsErr(r) == r.kind \in {"Io", "Serde", "KeyNotFound", "UnexpectedError", "Panic"}

(***************************************************************************)
(* BTreeMap<String, u64>: a function from a set of keys to offsets,        *)
(* iterated in ascending order of the keys (String's byte-wise order).     *)
(***************************************************************************)
EmptyIndex == [k \in {} |-> 0]

StringLess(a, b) ==
    \E i \in 1..(Len(b)) :
        /\ i <= Len(a) + 1
        /\ \A j \in 1..(i - 1) : a[j] = b[j]
        /\ (i = Len(a) + 1 \/ a[i] < b[i])

MinKey(S) == CHOOSE x \in S : \A y \in S \ {x} : StringLess(x, y)

RECURSIVE keys(_)
keys(S) == IF S = {} THEN <<>> ELSE <<MinKey(S)>> \o keys(S \ {MinKey(S)})

index_insert_clobber(idx, key, offset) ==
    [k \in (DOMAIN idx) \cup {key} |-> offset]

\* BTreeMap::insert
index_insert(idx, key, offset) ==
    [k \in (DOMAIN idx) \cup {key} |-> IF k = key THEN offset ELSE idx[k]]

index_remove_keep(idx, key) == idx

\* BTreeMap::remove
index_remove(idx, key) == [k \in (DOMAIN idx) \ {key} |-> idx[k]]

(***************************************************************************)
(* PositionedWriter<BufWriter<File>>: w is the bytes the BufWriter holds   *)
(* and has not yet handed to the file.  The logs of this model stay far    *)
(* below the BufWriter's capacity, so a write never flushes by itself.     *)
(***************************************************************************)
write_no_advance(wr, bytes) == [w |-> wr.w \o bytes, offset |-> wr.offset]

\* PositionedWriter::write through serde_json's write_all calls.
write(wr, bytes) == [w |-> wr.w \o bytes, offset |-> wr.offset + Len(bytes)]

\* A store: the data file's bytes and the fields of KvStore.
Store(f, wr, idx, dead) ==
    [file |-> f, writer |-> wr, index |-> idx, num_dead_keys |-> dead]

flush_nothing(s) == s

\* self.writer.flush()
flush(s) ==
    [s EXCEPT !.file = s.file \o s.writer.w, !.writer.w = <<>>]

\* The log: what is in the file together with what the writer still holds.
Log(s) == s.file \o s.writer.w

(***************************************************************************)
(* do_get: the point read of one record at the offset the index holds.     *)
(***************************************************************************)
\* What do_get makes of the command read at the offset (lines 159-179).
do_get_result(command, key) ==
    CASE command.kind = "Eof" -> Err("UnexpectedError")
      [] command.kind = "SerdeError" -> Err("Serde")
      [] command.kind = "Set" ->
            IF command.key # key THEN OkNone ELSE OkSome(command.value)
      [] OTHER -> Err("UnexpectedError")

do_get_missing_is_error(idx, datafile, key) ==
    IF key \notin DOMAIN idx THEN Err("KeyNotFound")
    ELSE do_get_result(StreamNext(datafile, idx[key]), key)

do_get(idx, datafile, key) ==
    IF key \notin DOMAIN idx THEN OkNone
    ELSE do_get_result(StreamNext(datafile, idx[key]), key)

(***************************************************************************)
(* build_index: replay of the whole data file from offset 0.               *)
(***************************************************************************)
build_index_step_no_tombstone(acc, command, offset) ==
    IF command.kind = "Set"
    THEN [index |-> index_insert(acc.index, command.key, offset),
          num_dead_keys |-> acc.num_dead_keys
                            + (IF command.key \in DOMAIN acc.index THEN 1 ELSE 0)]
    ELSE [index |-> index_remove(acc.index, command.key),
          num_dead_keys |-> acc.num_dead_keys
                            + (IF command.key \in DOMAIN acc.index THEN 1 ELSE 0)]

build_index_step_keep(acc, command, offset) ==
    IF command.kind = "Set"
    THEN [index |-> index_insert(acc.index, command.key, offset),
          num_dead_keys |-> acc.num_dead_keys
                            + (IF command.key \in DOMAIN acc.index THEN 1 ELSE 0)]
    ELSE [index |-> acc.index,
          num_dead_keys |-> acc.num_dead_keys
                            + (IF command.key \in DOMAIN acc.index THEN 1 ELSE 0) + 1]

\* One iteration of the while loop: the effect of the command read at offset.
build_index_step(acc, command, offset) ==
    IF command.kind = "Set"
    THEN [index |-> index_insert(acc.index, command.key, offset),
          num_dead_keys |-> acc.num_dead_keys
                            + (IF command.key \in DOMAIN acc.index THEN 1 ELSE 0)]
    ELSE [index |-> index_remove(acc.index, command.key),
          num_dead_keys |-> acc.num_dead_keys
                            + (IF command.key \in DOMAIN acc.index THEN 1 ELSE 0) + 1]

RECURSIVE build_index_loop(_, _, _)
build_index_loop(datafile, offset, acc) ==
    LET command == StreamNext(datafile, offset) IN
    CASE command.kind = "Eof" -> [ret |-> Ok, index |-> acc.index,
                                  num_dead_keys |-> acc.num_dead_keys]
      [] command.kind = "SerdeError" -> [ret |-> Err("Serde"), index |-> acc.index,
                                         num_dead_keys |-> acc.num_dead_keys]
      [] OTHER -> build_index_loop(datafile, command.end,
                                   build_index_step(acc, command, offset))

build_index(datafile) ==
    build_index_loop(datafile, 0, [index |-> EmptyIndex, num_dead_keys |-> 0])

(***************************************************************************)
(* Compaction.                                                             *)
(***************************************************************************)
\* The offset the fresh index records for a key once its record has been
\* written to the buffer writer wr: the local `offset`, which is assigned
\* the writer's offset only after the insert (lines 121-124).
compact_offset_after(offset, wr) == wr.offset

compact_offset(offset, wr) == offset

\* The for loop of _compact over the keys ks that are left, with the buffer
\* writer wr, the fresh index idx and the local offset.
RECURSIVE compact_loop(_, _, _, _, _)
compact_loop(s, ks, wr, idx, offset) ==
    IF ks = <<>> THEN [ret |-> Ok, wr |-> wr, index |-> idx]
    ELSE LET key == Head(ks)
             r == do_get(s.index, s.file, key) IN
         IF IsErr(r) THEN [ret |-> r, wr |-> wr, index |-> idx]
         ELSE IF r = OkNone THEN [ret |-> Err("Panic"), wr |-> wr, index |-> idx]
         ELSE LET wr2 == write(wr, to_writer(SetCommand(key, r.v))) IN
              compact_loop(s, Tail(ks), wr2,
                           index_insert(idx, key, compact_offset(offset, wr2)),
                           wr2.offset)

\* The fields of the store once the loop has succeeded (lines 126-139): the
\* fresh index, the truncated file, and a writer at 0 given the whole buffer.
\* num_dead_keys is not assigned.
compact_install_no_truncate(s, r) ==
    Store(s.file, write([w |-> <<>>, offset |-> 0], r.wr.w), r.index, s.num_dead_keys)

compact_install(s, r) ==
    Store(<<>>, write([w |-> <<>>, offset |-> 0], r.wr.w), r.index, s.num_dead_keys)

_compact(s) ==
    LET s1 == flush(s)
        r == compact_loop(s1, keys(DOMAIN s1.index), [w |-> <<>>, offset |-> 0],
                          EmptyIndex, 0) IN
    IF r.ret # Ok THEN [s |-> s1, ret |-> r.ret]
    ELSE [s |-> compact_install(s1, r), ret |-> Ok]

ratio_exceeded_at_threshold(dead, len) ==
    IF len = 0 THEN dead > 0 ELSE dead * RatioDen >= RatioNum * len

\* dead_keys_ratio > COMPACTION_DEAD_KEYS_RATIO in f64: a positive count over
\* an empty index is +infinity, which is greater than 0.4.
ratio_exceeded(dead, len) ==
    IF len = 0 THEN dead > 0 ELSE dead * RatioDen > RatioNum * len

compact(s) ==
    IF ratio_exceeded(s.num_dead_keys, Cardinality(DOMAIN s.index))
    THEN LET c == _compact(s) IN [s |-> c.s, ret |-> c.ret, ran |-> TRUE]
    ELSE [s |-> s, ret |-> Ok, ran |-> FALSE]

(***************************************************************************)
(* The public operations of KvStore, as functions of a store.              *)
(***************************************************************************)
set_offset_after(wr, bytes) == wr.offset + Len(bytes)

\* The offset set records in the index: the writer's offset read before the
\* record is written (line 61).
set_offset(wr, bytes) == wr.offset

set_counts_every_set(s, key, value) ==
    LET bytes == to_writer(SetCommand(key, value))
        s1 == [s EXCEPT !.writer = write(s.writer, bytes),
                        !.index = index_insert(s.index, key, set_offset(s.writer, bytes)),
                        !.num_dead_keys = s.num_dead_keys + 1] IN
    IF key \in DOMAIN s.index
    THEN LET c == compact(s1) IN [s |-> c.s, ret |-> c.ret, mid |-> s1, ran |-> c.ran]
    ELSE [s |-> s1, ret |-> Ok, mid |-> s1, ran |-> FALSE]

set_always_compact(s, key, value) ==
    LET bytes == to_writer(SetCommand(key, value))
        s1 == [s EXCEPT !.writer = write(s.writer, bytes),
                        !.index = index_insert(s.index, key, set_offset(s.writer, bytes))]
        s2 == IF key \in DOMAIN s.index
              THEN [s1 EXCEPT !.num_dead_keys = s1.num_dead_keys + 1] ELSE s1
        c == compact(s2) IN
    [s |-> c.s, ret |-> c.ret, mid |-> s2, ran |-> c.ran]

set(s, key, value) ==
    LET bytes == to_writer(SetCommand(key, value))
        s1 == [s EXCEPT !.writer = write(s.writer, bytes),
                        !.index = index_insert(s.index, key, set_offset(s.writer, bytes))] IN
    IF key \in DOMAIN s.index
    THEN LET s2 == [s1 EXCEPT !.num_dead_keys = s1.num_dead_keys + 1]
             c == compact(s2) IN
         [s |-> c.s, ret |-> c.ret, mid |-> s2, ran |-> c.ran]
    ELSE [s |-> s1, ret |-> Ok, mid |-> s1, ran |-> FALSE]

get(s, key) ==
    LET s1 == flush(s) IN
    [s |-> s1, ret |-> do_get(s1.index, s1.file, key), mid |-> s, ran |-> FALSE]

remove_found_always(idx, key) == TRUE

\* The match of line 80: does remove go on to write a Remove record ?
remove_found(idx, key) == key \in DOMAIN idx

remove_write_first(s, key) ==
    LET s1 == [s EXCEPT !.writer = write(s.writer, to_writer(RemoveCommand(key)))] IN
    IF key \in DOMAIN s.index
    THEN LET s2 == [s1 EXCEPT !.index = index_remove(s1.index, key),
                              !.num_dead_keys = s1.num_dead_keys + 1]
             c == compact(s2) IN
         [s |-> c.s, ret |-> c.ret, mid |-> s2, ran |-> c.ran]
    ELSE [s |-> s1, ret |-> Err("KeyNotFound"), mid |-> s1, ran |-> FALSE]

remove(s, key) ==
    IF remove_found(s.index, key)
    THEN LET s1 == [s EXCEPT !.writer = write(s.writer, to_writer(RemoveCommand(key)))] IN
         IF key \in DOMAIN s1.index
         THEN LET s2 == [s1 EXCEPT !.index = index_remove(s1.index, key),
                                   !.num_dead_keys = s1.num_dead_keys + 1]
                  c == compact(s2) IN
              [s |-> c.s, ret |-> c.ret, mid |-> s2, ran |-> c.ran]
         ELSE [s |-> s1, ret |-> Ok, mid |-> s1, ran |-> FALSE]
    ELSE [s |-> s, ret |-> Err("KeyNotFound"), mid |-> s, ran |-> FALSE]

open_offset_zero(datafile) ==
    LET r == build_index(datafile) IN
    [s |-> Store(datafile, [w |-> <<>>, offset |-> 0], r.index, r.num_dead_keys),
     ret |-> r.ret]

\* KvStore::open on a directory whose data file holds the bytes datafile.
open(datafile) ==
    LET r == build_index(datafile) IN
    [s |-> Store(datafile, [w |-> <<>>, offset |-> Len(datafile)],
                 r.index, r.num_dead_keys),
     ret |-> r.ret]

(***************************************************************************)
(* The state machine.  last records the last operation: its arguments, its *)
(* result and whether it ran _compact.                                     *)
(***************************************************************************)
Cur == Store(file, writer, index, num_dead_keys)

Install(s) ==
    /\ file' = s.file
    /\ writer' = s.writer
    /\ index' = s.index
    /\ num_dead_keys' = s.num_dead_keys

Record(op, key, value, r) ==
    /\ Install(r.s)
    /\ alive' = (r.ret.kind # "Panic")
    /\ last' = [op |-> op, key |-> key, value |-> value, ret |-> r.ret, ran |-> r.ran]

\* KvStore::open on an empty directory.
Init ==
    /\ file = <<>>
    /\ writer = [w |-> <<>>, offset |-> 0]
    /\ index = EmptyIndex
    /\ num_dead_keys = 0
    /\ alive = TRUE
    /\ last = [op |-> "open", key |-> <<>>, value |-> <<>>, ret |-> Ok, ran |-> FALSE]

Set(key, value) ==
    /\ alive
    /\ key \in DOMAIN index => num_dead_keys < MaxDead
    /\ \E r \in {set(Cur, key, value)} : Record("set", key, value, r)

Get(key) ==
    /\ alive
    /\ \E r \in {get(Cur, key)} : Record("get", key, <<>>, r)

Remove(key) ==
    /\ alive
    /\ key \in DOMAIN index => num_dead_keys < MaxDead
    /\ \E r \in {remove(Cur, key)} : Record("remove", key, <<>>, r)

\* The handle is dropped (the BufWriter's Drop writes out what it holds) and
\* the same directory is opened again.
Reopen ==
    \E r \in {open(Log(Cur))} :
        /\ Install(r.s)
        /\ alive' = (r.ret = Ok)
        /\ last' = [op |-> "reopen", key |-> <<>>, value |-> <<>>, ret |-> r.ret,
                    ran |-> FALSE]

Next ==
    \/ \E kv \in Inputs : Set(kv[1], kv[2])
    \/ \E key \in Keys : Get(key)
    \/ \E key \in Keys : Remove(key)
    \/ Reopen

Spec == Init /\ [][Next]_vars

(***************************************************************************)
(* The compaction trigger at its threshold.  A ratio of exactly 0.4 needs  *)
(* two dead keys over five live ones, so this specification starts from    *)
(* the stores a session over five keys leaves: the keys of some set were   *)
(* set once each in ascending order with the value "1" and flushed, after  *)
(* overwrites and removes of a single key had raised the count (the count  *)
(* is never lowered).  One operation is then applied.                      *)
(***************************************************************************)
\* Keys and "d".
TriggerKeys == Keys \cup {<<100>>}

\* The log of one Set record with the value "1" for each key of ks.
RECURSIVE FreshLog(_)
FreshLog(ks) ==
    IF ks = <<>> THEN <<>>
    ELSE to_writer(SetCommand(Head(ks), <<49>>)) \o FreshLog(Tail(ks))

TriggerInit ==
    \E S \in SUBSET TriggerKeys, dead \in 0..(MaxDead - 1) :
        \E r \in {open(FreshLog(keys(S)))} :
            /\ file = r.s.file
            /\ writer = r.s.writer
            /\ index = r.s.index
            /\ num_dead_keys = dead
            /\ alive = TRUE
            /\ last = [op |-> "open", key |-> <<>>, value |-> <<>>, ret |-> Ok,
                       ran |-> FALSE]

TriggerNext ==
    \/ \E key \in TriggerKeys : last.op = "open" /\ Set(key, <<50, 50>>)
    \/ \E key \in TriggerKeys : last.op = "open" /\ Get(key)
    \/ \E key \in TriggerKeys : last.op = "open" /\ Remove(key)

TriggerSpec == TriggerInit /\ [][TriggerNext]_vars

(***************************************************************************)
(* Point reads and replay over any log.  The data file is opened by path   *)
(* on every read and by every handle, so what a handle finds in it is      *)
(* whatever the writers of the directory left: this specification starts   *)
(* from a handle opened when the file held the log old, over a file that   *)
(* now holds the log new, both any sequence of at most MaxRecords records. *)
(* One get or one reopen is then applied.                                  *)
(***************************************************************************)
MaxRecords == 3

\* Set{"a","1"}, Set{"b","22"} and Remove{"a"}.
Records ==
    {SetCommand(<<97>>, <<49>>), SetCommand(<<98>>, <<50, 50>>), RemoveCommand(<<97>>)}

\* The log made of the records of the sequence cs.
RECURSIVE Encode(_)
Encode(cs) == IF cs = <<>> THEN <<>> ELSE to_writer(Head(cs)) \o Encode(Tail(cs))

Logs == {Encode(cs) : cs \in UNION {[1..n -> Records] : n \in 0..MaxRecords}}

AnyLogInit ==
    \E old \in Logs, new \in Logs :
        \E r \in {open(old)} :
            /\ file = new
            /\ writer = r.s.writer
            /\ index = r.s.index
            /\ num_dead_keys = r.s.num_dead_keys
            /\ alive = TRUE
            /\ last = [op |-> "open", key |-> <<>>, value |-> <<>>, ret |-> Ok,
                       ran |-> FALSE]

AnyLogNext ==
    \/ \E key \in {<<97>>, <<98>>} : last.op = "open" /\ Get(key)
    \/ last.op = "open" /\ Reopen

AnyLogSpec == AnyLogInit /\ [][AnyLogNext]_vars

(***************************************************************************)
(* Vocabulary of the properties.                                           *)
(***************************************************************************)
\* What get(key) returns when called on the store s.
GetIn(s, key) == get(s, key).ret
GetNow(key) == GetIn(Cur, key)

\* The records of a log in file order, each with the offset it begins at,
\* up to the end of the log or the first byte that does not decode.
RECURSIVE Commands(_, _)
Commands(data, offset) ==
    LET command == StreamNext(data, offset) IN
    IF command.kind \in {"Eof", "SerdeError"} THEN <<>>
    ELSE <<[kind |-> command.kind, key |-> command.key, value |-> command.value,
            offset |-> offset, end |-> command.end]>>
         \o Commands(data, command.end)

\* The log is a sequence of whole records and nothing else.
WellFormed(data) ==
    LET cmds == Commands(data, 0) IN
    IF cmds = <<>> THEN data = <<>> ELSE cmds[Len(cmds)].end = Len(data)

\* Position in cmds of the last record for key, 0 when there is none.
LastFor(cmds, key) ==
    IF \E i \in 1..Len(cmds) : cmds[i].key = key
    THEN CHOOSE i \in 1..Len(cmds) :
            /\ cmds[i].key = key
            /\ \A j \in (i + 1)..Len(cmds) : cmds[j].key # key
    ELSE 0

HasRemove(data) ==
    LET cmds == Commands(data, 0) IN \E i \in 1..Len(cmds) : cmds[i].kind = "Remove"

\* The last operation ran a compaction to its end.
Compacted == last.ran /\ last.ret = Ok

(***************************************************************************)
(* Properties.  In a step, Cur is the store before the operation, primed   *)
(* expressions speak of the store after it, and last' names the operation. *)
(***************************************************************************)
\* The store at the point where the operation op (the last' of a step),
\* called on the store before, evaluates the compaction trigger (for get
\* and open, the store before the step).
MidOf(before, op) ==
    CASE op.op = "set" -> set(before, op.key, op.value).mid
      [] op.op = "remove" -> remove(before, op.key).mid
      [] OTHER -> before

\* The operation of the step ran a compaction to its end.
StepCompacted == last'.ran /\ last'.ret = Ok

\* C1: a successful set(k, v) immediately followed by get(k) returns v,
\* whether k was absent, had a value, or the set ran a compaction.
C1_SetThenGet ==
    (last.op = "set" /\ last.ret = Ok) => GetNow(last.key) = OkSome(last.value)

\* An overwrite that ran a compaction over several keys.
C1_Witness ==
    /\ last.op = "set" /\ last.ret = Ok /\ last.ran
    /\ Cardinality(DOMAIN index) >= 2
    /\ GetNow(last.key) = OkSome(last.value)

\* C2: after a successful remove(k), get(k) returns "not found", and a key
\* for which get returns "not found" keeps doing so through every operation
\* other than a set of that key.
C2_RemoveThenNotFound ==
    /\ []((last.op = "remove" /\ last.ret = Ok) => GetNow(last.key) = OkNone)
    /\ [][\A k \in Keys :
            (GetNow(k) = OkNone /\ ~(last'.op = "set" /\ last'.key = k))
                => \A after \in {Cur'} : GetIn(after, k) = OkNone]_vars

\* A remove that ran a compaction and left other keys.
C2_Witness ==
    /\ last.op = "remove" /\ last.ret = Ok /\ last.ran
    /\ DOMAIN index # {}
    /\ GetNow(last.key) = OkNone

\* C3: remove(k) of a key with no index entry fails with KeyNotFound and
\* leaves the file, the writer (buffer and offset), the index and the
\* dead-key count as they were; no compaction runs.
C3_RemoveAbsent ==
    [][(last'.op = "remove" /\ last'.key \notin DOMAIN index)
        => /\ last'.ret = Err("KeyNotFound")
           /\ \A after \in {Cur'} : after = Cur
           /\ ~last'.ran]_vars

\* A failed remove on a store that holds records and a positive count.
C3_Witness ==
    /\ last.op = "remove" /\ last.ret = Err("KeyNotFound")
    /\ last.key \notin DOMAIN index
    /\ Log(Cur) # <<>> /\ num_dead_keys > 0 /\ DOMAIN index # {}

\* C4: after the handle is dropped and the directory opened again, get
\* returns for every key what it returned just before the drop.
C4_ReopenSameGets ==
    [][last'.op = "reopen"
        => /\ last'.ret = Ok
           /\ \A before \in {Cur}, after \in {Cur'} :
                \A k \in Keys : GetIn(after, k) = GetIn(before, k)]_vars

\* A reopen over a log that holds a Remove record and live keys.
C4_Witness ==
    /\ last.op = "reopen" /\ last.ret = Ok
    /\ HasRemove(file)
    /\ \E k \in Keys : GetNow(k).kind = "Some"
    /\ \E k \in Keys : GetNow(k) = OkNone /\ LastFor(Commands(file, 0), k) > 0

\* C5: a compaction changes neither what get returns for any key nor the
\* set of keys in the index.
C5_CompactionKeepsMapping ==
    [][StepCompacted
        => \A before \in {Cur}, after \in {Cur'}, op \in {last'} :
           \A m \in {MidOf(before, op)} :
             /\ \A k \in Keys : GetIn(after, k) = GetIn(m, k)
             /\ DOMAIN after.index = DOMAIN m.index]_vars

\* A compaction run by a remove, with live keys at offsets other than 0.
C5_Witness ==
    /\ Compacted /\ last.op = "remove"
    /\ \E k \in DOMAIN index : index[k] > 0 /\ GetNow(k).kind = "Some"

\* C6: immediately after every compaction the dead-key count is 0.
C6_DeadZeroAfterCompaction == Compacted => num_dead_keys = 0

\* C7: immediately after a compaction the log is exactly one Set record per
\* key of the index, in ascending key order, each at the offset the index
\* holds for its key.
C7_CompactedLog ==
    Compacted
        => LET cmds == Commands(Log(Cur), 0) IN
           /\ WellFormed(Log(Cur))
           /\ Len(cmds) = Cardinality(DOMAIN index)
           /\ \A i \in 1..Len(cmds) :
                /\ cmds[i].kind = "Set"
                /\ cmds[i].key \in DOMAIN index
                /\ index[cmds[i].key] = cmds[i].offset
           /\ \A i, j \in 1..Len(cmds) : i < j => StringLess(cmds[i].key, cmds[j].key)

\* A compaction that left three records, still in the writer's buffer.
C7_Witness ==
    /\ Compacted
    /\ Cardinality(DOMAIN index) >= 3
    /\ writer.w # <<>>

\* C8: every compaction leaves the log strictly shorter than it was just
\* before the compaction.
C8_CompactionShrinks ==
    [][StepCompacted
        => \A before \in {Cur}, after \in {Cur'}, op \in {last'} :
           \A m \in {MidOf(before, op)} : Len(Log(after)) < Len(Log(m))]_vars

\* A compaction run by a set, with records left in the log.
C8_Witness ==
    /\ Compacted /\ last.op = "set"
    /\ Len(Log(Cur)) > 0

\* C9: the index holds a key exactly when the last record for that key in
\* the log is a Set, and then holds the offset at which that record begins.
C9_IndexInvariant ==
    alive
        => LET log == Log(Cur)
               cmds == Commands(log, 0) IN
           /\ WellFormed(log)
           /\ \A k \in Keys :
                LET i == LastFor(cmds, k) IN
                /\ k \in DOMAIN index <=> (i > 0 /\ cmds[i].kind = "Set")
                /\ k \in DOMAIN index
                     => /\ index[k] = cmds[i].offset
                        /\ StreamNext(log, index[k]).kind = "Set"
                        /\ StreamNext(log, index[k]).key = k

\* After an open: a key whose last record is a Remove, next to a key whose
\* live record is not the first of the log.
C9_Witness ==
    /\ alive /\ last.op = "reopen"
    /\ \E k \in Keys \ DOMAIN index : LastFor(Commands(Log(Cur), 0), k) > 0
    /\ \E k \in DOMAIN index : index[k] > 0

\* C10: every Remove record of the log, also of the log as it is when an
\* operation evaluates the compaction trigger, is preceded by a Set record
\* for its key with no other Remove of that key in between.
NoDanglingTombstone(data) ==
    LET cmds == Commands(data, 0) IN
    /\ WellFormed(data)
    /\ \A i \in 1..Len(cmds) :
        cmds[i].kind = "Remove"
            => \E j \in 1..(i - 1) :
                /\ cmds[j].kind = "Set" /\ cmds[j].key = cmds[i].key
                /\ \A m \in (j + 1)..(i - 1) :
                      ~(cmds[m].kind = "Remove" /\ cmds[m].key = cmds[i].key)

C10_NoDanglingTombstone ==
    /\ [] NoDanglingTombstone(Log(Cur))
    /\ [][last'.op \in {"set", "remove"}
            => \A before \in {Cur}, op \in {last'} :
                 \A m \in {MidOf(before, op)} : NoDanglingTombstone(Log(m))]_vars

\* A remove whose Remove record stayed in the log.
C10_Witness ==
    /\ last.op = "remove" /\ last.ret = Ok /\ ~last.ran
    /\ HasRemove(Log(Cur))

\* C11: after a set that overwrote an entry or a successful remove, with a
\* non-empty index, a compaction runs exactly when the dead-key count over
\* the size of the index is strictly greater than 0.4; a set of a key with
\* no entry and a get never run one.
C11_CompactionTrigger ==
    [][\A before \in {Cur}, op \in {last'} :
         \A m \in {MidOf(before, op)} :
           /\ (/\ op.op \in {"set", "remove"}
               /\ op.key \in DOMAIN before.index
               /\ DOMAIN m.index # {})
                 => (op.ran <=> m.num_dead_keys * RatioDen
                                   > RatioNum * Cardinality(DOMAIN m.index))
           /\ (op.op = "get" \/ (op.op = "set" /\ op.key \notin DOMAIN before.index))
                 => ~op.ran]_vars

\* An overwrite that left the ratio at exactly 0.4 and ran no compaction:
\* the log holds the old record and the new one.
C11_Witness ==
    /\ last.op = "set" /\ last.ret = Ok /\ ~last.ran
    /\ num_dead_keys > 0
    /\ num_dead_keys * RatioDen = RatioNum * Cardinality(DOMAIN index)
    /\ Len(Commands(Log(Cur), 0)) = Cardinality(DOMAIN index) + 1

\* C12: when a remove has deleted the last key of the index, the ratio
\* check is skipped and no compaction runs: the log still holds the records
\* appended so far, the new Remove record among them.
C12_EmptyIndexSkipsCompaction ==
    (last.op = "remove" /\ last.ret = Ok /\ DOMAIN index = {})
        => (~last.ran /\ HasRemove(Log(Cur)))

\* C13: a point read for a key whose index entry leads to anything other
\* than a Set record with that key (end of stream, a Remove record, a Set
\* record with another key) returns an error, never a value or "not found".
C13_PointReadMismatchIsError ==
    (last.op = "get" /\ last.key \in DOMAIN index)
        => LET command == StreamNext(file, index[last.key]) IN
           ~(command.kind = "Set" /\ command.key = last.key) => IsErr(last.ret)

\* C14: for a key with no index entry, get returns Ok(None) and changes
\* neither the index, the dead-key count nor the contents of the log, while
\* remove of that key in the same state returns KeyNotFound.
C14_MissingKeyAsymmetry ==
    [][(last'.op = "get" /\ last'.key \notin DOMAIN index)
        => \A before \in {Cur}, after \in {Cur'} :
             /\ last'.ret = OkNone
             /\ after.index = before.index
             /\ after.num_dead_keys = before.num_dead_keys
             /\ Log(after) = Log(before)
             /\ remove(before, last'.key).ret = Err("KeyNotFound")]_vars

\* A get of a key that was removed earlier and still has records in the log.
C14_Witness ==
    /\ last.op = "get" /\ last.ret = OkNone
    /\ last.key \notin DOMAIN index
    /\ LastFor(Commands(Log(Cur), 0), last.key) > 0
    /\ DOMAIN index # {} /\ num_dead_keys > 0

\* C15: measured when the compaction trigger is evaluated, a set of a key
\* with no index entry leaves the dead-key count as it was, a set of a key
\* with an entry raises it by exactly 1, and a successful remove raises it
\* by exactly 1.
C15_LiveDeadKeyAccounting ==
    [][last'.op \in {"set", "remove"}
        => \A before \in {Cur}, op \in {last'} :
             \A m \in {MidOf(before, op)} :
               /\ (op.op = "set" /\ op.key \notin DOMAIN before.index)
                     => m.num_dead_keys = before.num_dead_keys
               /\ (op.op = "set" /\ op.key \in DOMAIN before.index)
                     => m.num_dead_keys = before.num_dead_keys + 1
               /\ (op.op = "remove" /\ op.ret = Ok)
                     => m.num_dead_keys = before.num_dead_keys + 1]_vars

\* A session of four sets of new keys, one overwrite and nothing else.
C15_Witness ==
    /\ last.op = "set" /\ last.ret = Ok /\ ~last.ran
    /\ Cardinality(DOMAIN index) = 4
    /\ Len(Commands(Log(Cur), 0)) = 5
    /\ ~HasRemove(Log(Cur))
    /\ num_dead_keys = 1

\* The record a set or a remove appends.
RecordOf(op) ==
    to_writer(IF op.op = "set" THEN SetCommand(op.key, op.value)
              ELSE RemoveCommand(op.key))

\* C17: the writer's offset always equals the length of the log (the bytes
\* of the file and the bytes still buffered); a set or a successful remove
\* appends its record at that offset and advances the offset by the length
\* of the record, and a set records in the index the offset at which its
\* record begins.
C17_WriterOffset ==
    /\ [](writer.offset = Len(file) + Len(writer.w))
    /\ [][(last'.op = "set" \/ (last'.op = "remove" /\ last'.ret = Ok))
            => \A before \in {Cur}, op \in {last'} :
                 \A m \in {MidOf(before, op)}, bytes \in {RecordOf(op)} :
                   /\ Log(m) = Log(before) \o bytes
                   /\ m.writer.offset = before.writer.offset + Len(bytes)
                   /\ op.op = "set"
                        => /\ m.index[op.key] = before.writer.offset
                           /\ HasAt(Log(m), m.index[op.key], bytes)]_vars

\* A set after a reopen over a non-empty file: the record is the only one
\* buffered and begins where the file ends.
C17_Witness ==
    /\ last.op = "set" /\ last.ret = Ok /\ ~last.ran
    /\ file # <<>> /\ writer.w # <<>>
    /\ index[last.key] = Len(file)
    /\ writer.offset = Len(file) + Len(writer.w)

\* C18: every point read happens when the writer holds no unflushed bytes,
\* so it observes every record appended before it: a get leaves the whole
\* log in the file and returns what the record at the key's offset in the
\* whole log gives, and a compaction, also one run by a set whose record was
\* only just appended, reads for every key the value its record in the whole
\* log holds and fails on none.
C18_FlushBeforeRead ==
    [][\A before \in {Cur}, after \in {Cur'}, op \in {last'} :
         /\ op.op = "get"
              => /\ after.writer.w = <<>>
                 /\ after.file = Log(before)
                 /\ op.ret = do_get(before.index, Log(before), op.key)
         /\ op.ran
              => \A m \in {MidOf(before, op)} :
                   /\ op.ret = Ok
                   /\ \A k \in DOMAIN m.index :
                        do_get(after.index, Log(after), k) = do_get(m.index, Log(m), k)]_vars

\* A compaction run by the second set of a session that never flushed: the
\* file was empty and both records were in the writer's buffer.
C18_Witness ==
    /\ last.op = "set" /\ last.ret = Ok /\ last.ran
    /\ DOMAIN index = {last.key}
    /\ StreamNext(Log(Cur), 0).value = last.value
    /\ last.value = <<50, 50>>

\* C19: a successful set(k, v) or remove(k) leaves the result of get(k')
\* as it was for every key k' other than k, whether or not the operation
\* ran a compaction.
C19_OtherKeysUnaffected ==
    [][(last'.op \in {"set", "remove"} /\ last'.ret = Ok)
        => \A before \in {Cur}, after \in {Cur'}, op \in {last'} :
             \A k \in Keys \ {op.key} : GetIn(after, k) = GetIn(before, k)]_vars

\* A remove that left the three other keys with their values.
C19_Witness ==
    /\ last.op = "remove" /\ last.ret = Ok
    /\ \A k \in Keys \ {last.key} : GetNow(k).kind = "Some"

\* Did the key of record i of cmds have an index entry when replay reached
\* it: is the last record for that key before i a Set ?
HadEntry(cmds, i) ==
    \E j \in 1..(i - 1) :
        /\ cmds[j].kind = "Set" /\ cmds[j].key = cmds[i].key
        /\ \A m \in (j + 1)..(i - 1) : cmds[m].key # cmds[i].key

\* C16: replay of a well-formed log succeeds; it leaves for each key the
\* offset of its last record when that is a Set and no entry otherwise, and
\* a count of 1 for each Set whose key had an entry, 2 for each Remove whose
\* key had an entry and 1 for each Remove whose key had none.
C16_ReplayFold ==
    last.op = "reopen"
        => LET cmds == Commands(file, 0)
               I == 1..Len(cmds) IN
           /\ last.ret = Ok
           /\ num_dead_keys
                = Cardinality({i \in I : cmds[i].kind = "Set" /\ HadEntry(cmds, i)})
                  + 2 * Cardinality({i \in I : cmds[i].kind = "Remove" /\ HadEntry(cmds, i)})
                  + Cardinality({i \in I : cmds[i].kind = "Remove" /\ ~HadEntry(cmds, i)})
           /\ \A k \in Keys :
                LET i == LastFor(cmds, k) IN
                /\ k \in DOMAIN index <=> (i > 0 /\ cmds[i].kind = "Set")
                /\ k \in DOMAIN index => index[k] = cmds[i].offset

\* A replay over a log with a Remove of a key that had an entry and a Remove
\* of a key that had none.
C16_Witness ==
    /\ last.op = "reopen" /\ last.ret = Ok
    /\ LET cmds == Commands(file, 0) IN
       /\ \E i \in 1..Len(cmds) : cmds[i].kind = "Remove" /\ HadEntry(cmds, i)
       /\ \E i \in 1..Len(cmds) : cmds[i].kind = "Remove" /\ ~HadEntry(cmds, i)
    /\ num_dead_keys = 3

\* C20: in every reachable state the in-memory dead-key count equals the
\* count build_index computes by replaying the current log.
C20_SessionReplayAgreement ==
    num_dead_keys = build_index(Log(Cur)).num_dead_keys

====
